---- MODULE Spec2Model ----
(***************************************************************************)
(* A model of the voting service of adrianapps/votingsystem:               *)
(* election/services.py (create_voter, is_voter, create_vote), the model   *)
(* validation in election/models.py (Voter.clean, Vote.clean) and the      *)
(* request handlers of election/views.py: signup_for_election, vote, the   *)
(* result page and its PDF export, and the management views of elections   *)
(* and candidates behind StaffMemberRequiredMixin (election/mixins.py).    *)
(*                                                                         *)
(* The relational store is the variables elections, voters and votes.  A   *)
(* request is executed by a worker; req[w] holds the handler's position    *)
(* and its local variables.  Every ORM statement that reads or writes the  *)
(* store is one step, in the order of the source.                          *)
(***************************************************************************)
EXTENDS Integers, Sequences, FiniteSets, TLC

\* ------------------------------------------------------------------ bounds
MaxTime == 2        \* timezone.now() ranges over 0..MaxTime
MaxVotes == 2       \* Vote rows stored at a time
MaxUpdates == 1     \* staff edits of an election

Users == {"u1", "u2"}
Elections == {"e1", "e2"}
Candidates == {"c1", "c2"}
NoSuchCandidate == "c9"
Workers == {"w1", "w2"}
\* request.user of a request made without a session, and the staff accounts.
AnonymousUser == "anon"
Staff == {"s1"}

\* Candidate.election of the candidates at the start: the slate of each election.
CandidateElection(c) == IF c = "c1" THEN "e1" ELSE "e2"

Dates == 0..MaxTime
\* PositiveIntegerField: any number >= 0; no ballot names more than all candidates.
Choices == 0..Cardinality(Candidates)

VARIABLES
    now,          \* timezone.now()
    elections,    \* Election rows: id -> [start_date, end_date, max_candidates_choice]
    candidates,   \* Candidate rows: id -> the id of the candidate's election
    voters,       \* Voter rows: {[id, user, election, has_voted]}
    votes,        \* Vote rows: {[id, election, chosen_candidates, timestamp]}
    req,          \* worker -> the request it runs: position and locals
    updates,      \* number of staff edits saved
    onTime,       \* history: (user, election) with a signup made at now <= start_date
    cast          \* history: (user, election) -> ballots accepted by the vote handler

vars == <<now, elections, candidates, voters, votes, req, updates, onTime, cast>>

store == <<elections, candidates, voters, votes>>

\* ------------------------------------------------------------------ rows
NoElection == [start_date |-> 0, end_date |-> 0, max_candidates_choice |-> 0]
NoVoter == [id |-> <<"none", "none", 0>>, user |-> "none", election |-> "none",
            has_voted |-> FALSE]

\* Primary keys are row identities only, and no code reads their value.  A new
\* Voter's key is (user, election, k), the k-th row written for that pair; a new
\* Vote's key is one more than the largest stored key.
NewVoterId(user, election) ==
    <<user, election,
      1 + Cardinality({v \in voters : v.user = user /\ v.election = election})>>
NewVoteId ==
    IF votes = {} THEN 1
    ELSE 1 + (CHOOSE n \in {v.id : v \in votes} : \A v \in votes : v.id <= n)

Idle ==
    [pc |-> "idle", kind |-> "none", user |-> "none", election |-> "none",
     el |-> NoElection, voter |-> NoVoter, nids |-> 0, bad |-> FALSE, sel |-> {}, vote |-> 0,
     timestamp |-> 0, result |-> "none", tally |-> <<>>, t0 |-> 0,
     preVotes |-> {}, preVoters |-> {}, dirty |-> {}]

\* A worker takes a new request when it runs none.
Free(w) == req[w].pc = "idle"

\* The locals of a request as it enters: the arguments, the Election object read
\* by get_object_or_404 (or passed in), and the store as the call found it.
\* NoElection stands in when the election does not exist: the request is then
\* answered 404 and the object is never used.
Enter(kind, user, election) ==
    [Idle EXCEPT !.kind = kind, !.user = user, !.election = election,
                 !.el = IF election \in DOMAIN elections
                        THEN elections[election] ELSE NoElection,
                 !.t0 = now,
                 !.preVotes = votes, !.preVoters = voters]

Answer(r, result) == [r EXCEPT !.pc = "done", !.result = result]

\* ------------------------------------------------------------------ models.py
\* Voter.clean: the error it raises, or "ok".
\* Faulty variant: the start_date comparison is dropped.
Voter_clean_late(t, el) == "ok"
Voter_clean(t, el) ==
    IF t > el.start_date THEN "election_started" ELSE "ok"

\* Vote.chosen_candidate_count: a COUNT query on the vote's row.
chosen_candidate_count(id) ==
    Cardinality((CHOOSE v \in votes : v.id = id).chosen_candidates)

\* Vote.clean: the error it raises, or "ok".
\* Faulty variants: no count comparison; > for >= ; <= for <; a count of 0
\* rejected.
Vote_clean_uncounted(el, count, timestamp) ==
    IF timestamp >= el.end_date THEN "ended" ELSE "ok"
Vote_clean_after(el, count, timestamp) ==
    IF el.max_candidates_choice < count THEN "too_many"
    ELSE IF timestamp > el.end_date THEN "ended"
    ELSE "ok"
Vote_clean_below(el, count, timestamp) ==
    IF el.max_candidates_choice <= count THEN "too_many"
    ELSE IF timestamp >= el.end_date THEN "ended"
    ELSE "ok"
Vote_clean_nonempty(el, count, timestamp) ==
    IF el.max_candidates_choice < count \/ count = 0 THEN "too_many"
    ELSE IF timestamp >= el.end_date THEN "ended"
    ELSE "ok"
Vote_clean(el, count, timestamp) ==
    IF el.max_candidates_choice < count THEN "too_many"
    ELSE IF timestamp >= el.end_date THEN "ended"
    ELSE "ok"

\* Election.has_finished
\* Faulty variant: < for <=.
has_finished_after(el) == el.end_date < now

has_finished(el) == el.end_date <= now

\* Candidate.vote_count: self.votes.count(), the Vote rows that chose c.
vote_count(c) == Cardinality({v \in votes : c \in v.chosen_candidates})

\* election.candidate_set.all()
candidate_set(election) == {c \in DOMAIN candidates : candidates[c] = election}

\* User.is_authenticated, User.is_staff
is_authenticated(user) == user # AnonymousUser
is_staff_anyone(user) == TRUE
is_staff(user) == user \in Staff

\* ------------------------------------------------------------------ services.py
\* is_voter: the Voter rows of (election, user).
\* Faulty variant: the lookup finds nothing.
is_voter_none(election, user) == {}
is_voter(election, user) ==
    {v \in voters : v.election = election /\ v.user = user}

\* create_voter, entered (by signup_for_election, or called directly): the
\* existence check of lines 103-104.
create_voter(w, election, user) ==
    /\ Free(w)
    /\ LET r == Enter("create_voter", user, election) IN
         req' = [req EXCEPT ![w] =
                   IF is_voter(election, user) # {}
                   THEN Answer(r, "already_signed_up")
                   ELSE [r EXCEPT !.pc = "voter_create"]]
    /\ election \in DOMAIN elections
    /\ onTime' = IF now <= elections[election].start_date
                 THEN onTime \cup {<<user, election>>} ELSE onTime
    /\ UNCHANGED <<now, store, updates, cast>>

\* Faulty variant: no row is inserted when the pair has one (get_or_create).
Voter_objects_create_once(w) ==
    /\ req[w].pc = "voter_create"
    /\ LET found == {v \in voters : v.user = req[w].user /\ v.election = req[w].election}
           row == IF found # {} THEN CHOOSE v \in found : TRUE
                  ELSE [id |-> NewVoterId(req[w].user, req[w].election),
                        user |-> req[w].user, election |-> req[w].election,
                        has_voted |-> FALSE] IN
         /\ voters' = voters \cup {row}
         /\ req' = [req EXCEPT ![w].pc = "voter_clean", ![w].voter = row]
    /\ UNCHANGED <<now, elections, candidates, votes, updates, onTime, cast>>

\* create_voter line 107: Voter.objects.create(election=election, user=user).
Voter_objects_create(w) ==
    /\ req[w].pc = "voter_create"
    /\ LET row == [id |-> NewVoterId(req[w].user, req[w].election),
                   user |-> req[w].user, election |-> req[w].election,
                   has_voted |-> FALSE] IN
         /\ voters' = voters \cup {row}
         /\ req' = [req EXCEPT ![w].pc = "voter_clean", ![w].voter = row]
    /\ UNCHANGED <<now, elections, candidates, votes, updates, onTime, cast>>

\* create_voter lines 108-111: voter.full_clean(); the ValidationError of
\* Voter.clean is re-raised as it is, the row of line 107 stays.
voter_full_clean(w) ==
    /\ req[w].pc = "voter_clean"
    /\ LET res == Voter_clean(now, req[w].el) IN
         req' = [req EXCEPT ![w] =
                   Answer(req[w], IF res = "ok" THEN "signed_up" ELSE res)]
    /\ UNCHANGED <<now, store, updates, onTime, cast>>

\* create_vote line 37: Vote.objects.create(election=election); auto_now_add
\* stamps the row, and the Vote object in memory, with the current time.
Vote_objects_create(w, r) ==
    /\ Cardinality(votes) < MaxVotes
    /\ votes' = votes \cup {[id |-> NewVoteId, election |-> r.election,
                             chosen_candidates |-> {}, timestamp |-> now]}
    /\ req' = [req EXCEPT ![w] = [r EXCEPT !.pc = "vote_set", !.vote = NewVoteId,
                                           !.timestamp = now]]

\* create_vote called directly with an Election, a set of candidates and a
\* persisted Voter: the call starts at line 37.
create_vote(w, election, selected_candidates, voter) ==
    /\ Free(w)
    /\ voter \in voters
    /\ Vote_objects_create(w,
         [Enter("create_vote", voter.user, election) EXCEPT
            !.voter = voter, !.sel = selected_candidates])
    /\ UNCHANGED <<now, elections, candidates, voters, updates, onTime, cast>>

\* create_vote line 38: vote.chosen_candidates.set(selected_candidates).
chosen_candidates_set(w) ==
    /\ req[w].pc = "vote_set"
    /\ votes' = {IF v.id = req[w].vote
                 THEN [v EXCEPT !.chosen_candidates = req[w].sel] ELSE v : v \in votes}
    /\ req' = [req EXCEPT ![w].pc = "vote_clean"]
    /\ UNCHANGED <<now, elections, candidates, voters, updates, onTime, cast>>

\* Faulty variant of the step below: the voter is marked before validation.
vote_full_clean_marking(w) ==
    /\ req[w].pc = "vote_clean"
    /\ LET res == Vote_clean(req[w].el, chosen_candidate_count(req[w].vote),
                             req[w].timestamp)
           voter == [req[w].voter EXCEPT !.has_voted = TRUE] IN
         /\ voters' = {v \in voters : v.id # voter.id} \cup {voter}
         /\ IF res = "ok"
            THEN /\ req' = [req EXCEPT ![w].pc = "vote_save"]
                 /\ votes' = votes
            ELSE /\ req' = [req EXCEPT ![w] = Answer(req[w], res)]
                 /\ votes' = {v \in votes : v.id # req[w].vote}
    /\ UNCHANGED <<now, elections, candidates, updates, onTime, cast>>

\* Faulty variant: the rejected vote is not deleted.
vote_full_clean_keeping(w) ==
    /\ req[w].pc = "vote_clean"
    /\ LET res == Vote_clean(req[w].el, chosen_candidate_count(req[w].vote),
                             req[w].timestamp) IN
         req' = [req EXCEPT ![w] =
                   IF res = "ok" THEN [req[w] EXCEPT !.pc = "vote_save"]
                   ELSE Answer(req[w], res)]
    /\ UNCHANGED <<now, store, updates, onTime, cast>>

\* create_vote lines 40-44: vote.full_clean(); on a ValidationError the vote is
\* deleted and the error raised again.
vote_full_clean(w) ==
    /\ req[w].pc = "vote_clean"
    /\ LET res == Vote_clean(req[w].el, chosen_candidate_count(req[w].vote),
                             req[w].timestamp) IN
         IF res = "ok"
         THEN /\ req' = [req EXCEPT ![w].pc = "vote_save"]
              /\ votes' = votes
         ELSE /\ req' = [req EXCEPT ![w] = Answer(req[w], res)]
              /\ votes' = {v \in votes : v.id # req[w].vote}
    /\ UNCHANGED <<now, elections, candidates, voters, updates, onTime, cast>>

\* Faulty variant: has_voted is left as it was.
mark_voted_not(voter) == voter

\* create_vote line 48: voter.has_voted = True, on the Voter object in memory.
mark_voted(voter) == [voter EXCEPT !.has_voted = TRUE]

\* create_vote lines 46-50: vote.save() writes the vote's own columns again,
\* voter.save() writes the Voter object in memory to its row.
vote_save(w) ==
    /\ req[w].pc = "vote_save"
    /\ LET voter == mark_voted(req[w].voter) IN
         /\ votes' = {IF v.id = req[w].vote
                      THEN [v EXCEPT !.election = req[w].election,
                                     !.timestamp = req[w].timestamp]
                      ELSE v : v \in votes}
         /\ voters' = {v \in voters : v.id # voter.id} \cup {voter}
         /\ req' = [req EXCEPT ![w] = Answer([req[w] EXCEPT !.voter = voter], "voted")]
    /\ cast' = IF req[w].kind = "vote"
               THEN [cast EXCEPT ![<<req[w].user, req[w].election>>] = @ + 1]
               ELSE cast
    /\ UNCHANGED <<now, elections, candidates, updates, onTime>>

\* ------------------------------------------------------------------ views.py
\* A request for an election that does not exist: get_object_or_404 raises Http404.
Http404(w, kind, user, election) ==
    /\ Free(w)
    /\ req' = [req EXCEPT ![w] = Answer(Enter(kind, user, election), "not_found")]
    /\ UNCHANGED <<now, store, updates, onTime, cast>>

\* signup_for_election: create_voter(election, request.user); the outcome is
\* shown as a message.
signup_for_election(w, user, election) ==
    IF election \in DOMAIN elections
    THEN create_voter(w, election, user)
    ELSE Http404(w, "create_voter", user, election)

\* Faulty variant: the election is left out of the lookup.
Voter_objects_get_any(election, user) == {v \in voters : v.user = user}

\* Voter.objects.get(election=election, user=request.user): the matching rows.
Voter_objects_get(election, user) ==
    {v \in voters : v.election = election /\ v.user = user}

\* request.POST.getlist('candidate'): any list of ids, repeats and unknown ids
\* included.  A list longer than the number of candidates never passes the
\* length check of line 394, whatever it holds, so the lists go up to that length.
MaxBallot == Cardinality(Candidates)
Ballots == UNION {[1..n -> Candidates \cup {NoSuchCandidate}] : n \in 0..MaxBallot}

\* A ballot that names an id of no candidate, or the same id twice (recorded
\* with the request, for the properties).
BadBallot(ids) ==
    \/ \E k \in DOMAIN ids : ids[k] \notin DOMAIN candidates
    \/ \E j, k \in DOMAIN ids : j # k /\ ids[j] = ids[k]

\* Faulty variant: the ids are taken as they are, stored or not.
Candidate_objects_filter_any(ids) == {ids[k] : k \in DOMAIN ids}

\* Candidate.objects.filter(pk__in=selected_candidates_ids)
Candidate_objects_filter(ids) ==
    {c \in DOMAIN candidates : \E k \in DOMAIN ids : ids[k] = c}

\* vote, lines 376-396: the checks made before create_vote is called.  (The
\* view is behind login_required: the users of the model are logged in.)
vote(w, user, election, ids) ==
    /\ Free(w)
    /\ LET r == [Enter("vote", user, election) EXCEPT
                  !.nids = Len(ids), !.bad = BadBallot(ids)]
           found == Voter_objects_get(election, user)
           selected_candidates == Candidate_objects_filter(ids)
       IN req' = [req EXCEPT ![w] =
            IF election \notin DOMAIN elections THEN Answer(r, "not_found")
            ELSE IF found = {} THEN Answer(r, "not_voter")
            ELSE IF Cardinality(found) > 1 THEN Answer(r, "error500")
            ELSE LET voter == CHOOSE v \in found : TRUE IN
                 IF voter.has_voted THEN Answer(r, "already_voted")
                 ELSE IF Len(ids) = 0 THEN Answer(r, "no_candidates")
                 ELSE IF Len(ids) # Cardinality(selected_candidates)
                      THEN Answer(r, "no_such_candidate")
                 ELSE [r EXCEPT !.pc = "vote_create",
                                !.voter = voter,
                                !.sel = selected_candidates]]
    /\ UNCHANGED <<now, store, updates, onTime, cast>>

\* vote, line 399: create_vote(election, selected_candidates, voter).
vote_create_vote(w) ==
    /\ req[w].pc = "vote_create"
    /\ Vote_objects_create(w, req[w])
    /\ UNCHANGED <<now, elections, candidates, voters, updates, onTime, cast>>

\* ElectionResult.get and generate_pdf up to the has_finished check: both are
\* behind a login check (LoginRequiredMixin, login_required), read the election
\* or answer 404, and redirect to the election list with an error when the
\* election has not finished.
ResultRequest(w, kind, user, election) ==
    /\ Free(w)
    /\ LET r == Enter(kind, user, election) IN
         req' = [req EXCEPT ![w] =
            IF ~is_authenticated(user) THEN Answer(r, "login")
            ELSE IF election \notin DOMAIN elections THEN Answer(r, "not_found")
            ELSE IF ~has_finished(r.el) THEN Answer(r, "not_finished")
            ELSE [r EXCEPT !.pc = "counts"]]
    /\ UNCHANGED <<now, store, updates, onTime, cast>>

ElectionResult_get(w, user, election) == ResultRequest(w, "result", user, election)

generate_pdf(w, user, election) == ResultRequest(w, "pdf", user, election)

\* A vote that its create_vote call has stored and is about to validate and
\* delete: the call of worker w is between lines 38 and 43.
Unvalidated(w) ==
    /\ req[w].pc = "vote_clean"
    /\ Vote_clean(req[w].el, chosen_candidate_count(req[w].vote),
                  req[w].timestamp) # "ok"

\* The vote counts of the election's candidates, read for the result page and
\* the chart of the PDF (generate_pdf lines 275-282; the result page gets the
\* candidates through CandidateListMixin).  dirty records whose unvalidated
\* votes were counted.
candidate_vote_counts(w) ==
    /\ req[w].pc = "counts"
    /\ LET cs == candidate_set(req[w].election) IN
         req' = [req EXCEPT ![w] =
            Answer([req[w] EXCEPT
                      !.tally = [c \in cs |-> vote_count(c)],
                      !.dirty = {x \in Workers :
                                   Unvalidated(x) /\ req[x].sel \cap cs # {}}],
                   "results")]
    /\ UNCHANGED <<now, store, updates, onTime, cast>>

\* The handler returns its response (the redirects of lines 344 and 405, or the
\* return of the service function to its caller): the worker is free again.
respond(w) ==
    /\ req[w].pc = "done"
    /\ req' = [req EXCEPT ![w] = Idle]
    /\ UNCHANGED <<now, store, updates, onTime, cast>>

\* The forms a staff member posts for an election: the form comes filled with
\* the stored row, and one field of it is changed.
EditForms(election) ==
    LET row == elections[election] IN
      {[row EXCEPT !.start_date = d] : d \in Dates \ {row.start_date}}
      \cup {[row EXCEPT !.end_date = d] : d \in Dates \ {row.end_date}}
      \cup {[row EXCEPT !.max_candidates_choice = m] :
               m \in Choices \ {row.max_candidates_choice}}

\* StaffMemberRequiredMixin.handle_no_permission: the login page for a requester
\* who is not logged in, else the election list with an error message.
handle_no_permission(user) ==
    IF ~is_authenticated(user) THEN "login" ELSE "denied"

\* A view behind StaffMemberRequiredMixin, posted with a valid form: dispatch
\* runs test_func first; then the object is looked up (404 when found is
\* false), and the store becomes (elections2, candidates2, voters2, votes2).
StaffView(w, kind, user, election, found, elections2, candidates2, voters2, votes2, result) ==
    /\ Free(w)
    /\ LET r == Enter(kind, user, election) IN
         IF ~is_staff(user)
         THEN /\ req' = [req EXCEPT ![w] = Answer(r, handle_no_permission(user))]
              /\ UNCHANGED <<store, updates>>
         ELSE IF ~found
         THEN /\ req' = [req EXCEPT ![w] = Answer(r, "not_found")]
              /\ UNCHANGED <<store, updates>>
         ELSE /\ updates < MaxUpdates
              /\ updates' = updates + 1
              /\ elections' = elections2
              /\ candidates' = candidates2
              /\ voters' = voters2
              /\ votes' = votes2
              /\ req' = [req EXCEPT ![w] = Answer(r, result)]
    /\ UNCHANGED <<now, onTime, cast>>

\* A function without the keys in gone.
Without(f, gone) == [k \in DOMAIN f \ gone |-> f[k]]

\* The Vote rows after the candidates in gone are deleted: the rows of the
\* chosen_candidates relation that name them go with them.
Unchoose(rows, gone) ==
    {[v EXCEPT !.chosen_candidates = @ \ gone] : v \in rows}

\* ElectionCreate: the form has fields = '__all__'; the new row gets a key that
\* no election has (the model has the keys of Elections to give).
ElectionCreate(w, user, start_date, end_date, max_candidates_choice) ==
    LET free == Elections \ DOMAIN elections
        pk == IF free = {} THEN "none" ELSE CHOOSE e \in free : TRUE
    IN /\ is_staff(user) => free # {}
       /\ StaffView(w, "election_create", user, pk, TRUE,
                    [e \in DOMAIN elections \cup {pk} |->
                       IF e = pk
                       THEN [start_date |-> start_date, end_date |-> end_date,
                             max_candidates_choice |-> max_candidates_choice]
                       ELSE elections[e]],
                    candidates, voters, votes, "saved")

\* ElectionUpdate: a staff member posts the form, fields = '__all__'; no field
\* is validated against the others or against the votes cast.
ElectionUpdate(w, user, election, start_date, end_date, max_candidates_choice) ==
    StaffView(w, "election_update", user, election, election \in DOMAIN elections,
              [elections EXCEPT ![election] =
                 [start_date |-> start_date, end_date |-> end_date,
                  max_candidates_choice |-> max_candidates_choice]],
              candidates, voters, votes, "saved")

\* ElectionDelete: the foreign keys to Election are on_delete = CASCADE, so the
\* election's candidates, voters and votes are deleted with it.
ElectionDelete(w, user, election) ==
    StaffView(w, "election_delete", user, election, election \in DOMAIN elections,
              Without(elections, {election}),
              Without(candidates, candidate_set(election)),
              {v \in voters : v.election # election},
              Unchoose({v \in votes : v.election # election},
                       candidate_set(election)),
              "deleted")

\* CandidateCreate: a new candidate of an existing election (the form offers
\* the existing elections; the model has the keys of Candidates to give).
CandidateCreate(w, user, election) ==
    LET free == Candidates \ DOMAIN candidates
        pk == IF free = {} THEN "none" ELSE CHOOSE c \in free : TRUE
    IN /\ is_staff(user) => free # {}
       /\ StaffView(w, "candidate_create", user, election, TRUE,
                    elections,
                    [c \in DOMAIN candidates \cup {pk} |->
                       IF c = pk THEN election ELSE candidates[c]],
                    voters, votes, "saved")

\* CandidateUpdate: fields = '__all__', the candidate's election included (the
\* form offers the existing elections).
CandidateUpdate(w, user, candidate, election) ==
    StaffView(w, "candidate_update", user, election,
              candidate \in DOMAIN candidates,
              elections, [candidates EXCEPT ![candidate] = election],
              voters, votes, "saved")

\* CandidateDelete: the candidate goes, and with it its place in every vote's
\* chosen_candidates.
CandidateDelete(w, user, candidate) ==
    StaffView(w, "candidate_delete", user,
              IF candidate \in DOMAIN candidates THEN candidates[candidate]
              ELSE "none",
              candidate \in DOMAIN candidates,
              elections, Without(candidates, {candidate}),
              voters, Unchoose(votes, {candidate}), "deleted")

\* ------------------------------------------------------------------ time
Tick ==
    /\ now < MaxTime
    /\ now' = now + 1
    /\ UNCHANGED <<store, req, updates, onTime, cast>>

\* ------------------------------------------------------------------ Init
Init ==
    /\ now = 0
    /\ elections = [e \in Elections |->
                      IF e = "e1"
                      THEN [start_date |-> 0, end_date |-> 2, max_candidates_choice |-> 1]
                      ELSE [start_date |-> 1, end_date |-> 2, max_candidates_choice |-> 2]]
    /\ candidates = [c \in Candidates |-> CandidateElection(c)]
    /\ voters = {}
    /\ votes = {}
    /\ req = [w \in Workers |-> Idle]
    /\ updates = 0
    /\ onTime = {}
    /\ cast = [p \in Users \X Elections |-> 0]

\* ------------------------------------------------------------------ specifications
\* One worker serves the requests one after the other: no two requests overlap.
Next ==
    \/ Tick
    \/ \E u \in Users, e \in Elections : signup_for_election("w1", u, e)
    \/ \E u \in Users, e \in Elections, ids \in Ballots : vote("w1", u, e, ids)
    \/ Voter_objects_create("w1")
    \/ voter_full_clean("w1")
    \/ vote_create_vote("w1")
    \/ chosen_candidates_set("w1")
    \/ vote_full_clean("w1")
    \/ vote_save("w1")
    \/ respond("w1")

Spec == Init /\ [][Next]_vars

\* The service functions called directly, one call after the other, with any
\* arguments: any election, any set of candidates, any persisted voter.  The
\* voters are those of one user.
NextService ==
    \/ Tick
    \/ \E e \in DOMAIN elections : create_voter("w1", e, "u1")
    \/ \E e \in DOMAIN elections, c \in SUBSET DOMAIN candidates, v \in voters :
         create_vote("w1", e, c, v)
    \/ Voter_objects_create("w1")
    \/ voter_full_clean("w1")
    \/ chosen_candidates_set("w1")
    \/ vote_full_clean("w1")
    \/ vote_save("w1")
    \/ respond("w1")

SpecService == Init /\ [][NextService]_vars

\* The requests of one user, one after the other, and the edits of the staff
\* between them.
NextStaff ==
    \/ Tick
    \/ \E e \in Elections : signup_for_election("w1", "u1", e)
    \/ \E e \in Elections, ids \in Ballots : vote("w1", "u1", e, ids)
    \/ Voter_objects_create("w1")
    \/ voter_full_clean("w1")
    \/ vote_create_vote("w1")
    \/ chosen_candidates_set("w1")
    \/ vote_full_clean("w1")
    \/ vote_save("w1")
    \/ respond("w1")
    \/ \E e \in DOMAIN elections : \E f \in EditForms(e) :
         ElectionUpdate("w1", "s1", e, f.start_date, f.end_date,
                        f.max_candidates_choice)

SpecStaff == Init /\ [][NextStaff]_vars

\* The people who send requests to the management views: nobody logged in, a
\* user who is not staff, a staff member.
Requesters == {AnonymousUser, "u1", "s1"}

\* The form posted for a new election: it opens now and runs to the last date.
CreateForms ==
    {[start_date |-> now, end_date |-> MaxTime, max_candidates_choice |-> 1]}

\* The requests of one user for one election, and the six management views
\* requested by anybody, one request after the other.
NextManage ==
    \/ Tick
    \/ signup_for_election("w1", "u1", "e1")
    \/ \E ids \in Ballots : vote("w1", "u1", "e1", ids)
    \/ Voter_objects_create("w1")
    \/ voter_full_clean("w1")
    \/ vote_create_vote("w1")
    \/ chosen_candidates_set("w1")
    \/ vote_full_clean("w1")
    \/ vote_save("w1")
    \/ respond("w1")
    \/ \E user \in Requesters, f \in CreateForms :
         ElectionCreate("w1", user, f.start_date, f.end_date,
                        f.max_candidates_choice)
    \/ \E user \in Requesters, e \in DOMAIN elections : \E f \in EditForms(e) :
         ElectionUpdate("w1", user, e, f.start_date, f.end_date,
                        f.max_candidates_choice)
    \/ \E user \in Requesters, e \in Elections : ElectionDelete("w1", user, e)
    \/ \E user \in Requesters, e \in DOMAIN elections :
         CandidateCreate("w1", user, e)
    \/ \E user \in Requesters, c \in Candidates, e \in DOMAIN elections :
         CandidateUpdate("w1", user, c, e)
    \/ \E user \in Requesters, c \in Candidates : CandidateDelete("w1", user, c)

SpecManage == Init /\ [][NextManage]_vars

\* The requests of one user, and the result page and the PDF export requested
\* by that user or by somebody who is not logged in, one request after the other.
NextResults ==
    \/ Tick
    \/ \E e \in Elections : signup_for_election("w1", "u1", e)
    \/ \E e \in Elections, ids \in Ballots : vote("w1", "u1", e, ids)
    \/ Voter_objects_create("w1")
    \/ voter_full_clean("w1")
    \/ vote_create_vote("w1")
    \/ chosen_candidates_set("w1")
    \/ vote_full_clean("w1")
    \/ vote_save("w1")
    \/ \E user \in {AnonymousUser, "u1"}, e \in Elections :
         ElectionResult_get("w1", user, e)
    \/ \E user \in {AnonymousUser, "u1"}, e \in Elections :
         generate_pdf("w1", user, e)
    \/ candidate_vote_counts("w1")
    \/ respond("w1")

SpecResults == Init /\ [][NextResults]_vars

\* One user's signup and vote requests, one after the other, for two elections
\* of which e1 ends first: e1 is finished while e2 is still open.
InitStaggered ==
    /\ now = 0
    /\ elections = [e \in Elections |->
                      IF e = "e1"
                      THEN [start_date |-> 0, end_date |-> 1, max_candidates_choice |-> 1]
                      ELSE [start_date |-> 0, end_date |-> 2, max_candidates_choice |-> 2]]
    /\ candidates = [c \in Candidates |-> CandidateElection(c)]
    /\ voters = {}
    /\ votes = {}
    /\ req = [w \in Workers |-> Idle]
    /\ updates = 0
    /\ onTime = {}
    /\ cast = [p \in Users \X Elections |-> 0]

NextStaggered ==
    \/ Tick
    \/ \E e \in Elections : signup_for_election("w1", "u1", e)
    \/ \E e \in Elections, ids \in Ballots : vote("w1", "u1", e, ids)
    \/ Voter_objects_create("w1")
    \/ voter_full_clean("w1")
    \/ vote_create_vote("w1")
    \/ chosen_candidates_set("w1")
    \/ vote_full_clean("w1")
    \/ vote_save("w1")
    \/ respond("w1")

SpecStaggered == InitStaggered /\ [][NextStaggered]_vars

\* Two workers serve the requests of one user for one election: a request is
\* taken by any free worker, and the steps of the two requests interleave in any
\* order.  A worker serves any number of signups and then one vote request or
\* one request for the results.
NextConcurrent ==
    \/ Tick
    \/ \E w \in Workers :
         \/ signup_for_election(w, "u1", "e1")
         \/ \E ids \in Ballots : vote(w, "u1", "e1", ids)
         \/ Voter_objects_create(w)
         \/ voter_full_clean(w)
         \/ vote_create_vote(w)
         \/ chosen_candidates_set(w)
         \/ vote_full_clean(w)
         \/ vote_save(w)
         \/ ElectionResult_get(w, "u1", "e1")
         \/ generate_pdf(w, "u1", "e1")
         \/ candidate_vote_counts(w)
         \/ req[w].kind = "create_voter" /\ respond(w)

SpecConcurrent == Init /\ [][NextConcurrent]_vars

\* ------------------------------------------------------------------ claims
\* The results that stand for a raised ValidationError.
ValidationErrors == {"already_signed_up", "election_started", "too_many", "ended"}

\* A create_voter call (made by signup_for_election or directly) that has
\* returned or raised, and a create_vote call that has.
ReturnedCreateVoter(w) == req[w].pc = "done" /\ req[w].kind = "create_voter"
ReturnedCreateVote(w) == req[w].pc = "done" /\ req[w].kind = "create_vote"
ReturnedVote(w) == req[w].pc = "done" /\ req[w].kind = "vote"

\* The Voter rows of (user, election) in a set of rows.
RowsOf(rows, user, election) ==
    {v \in rows : v.user = user /\ v.election = election}

\* C1: under calls that do not overlap there is at most one Voter row for each
\* (election, user), and a create_voter call that finds a row for its pair
\* raises ValidationError and leaves the Voter rows as they were.
C1_AtMostOneVoter ==
    /\ \A u \in Users, e \in Elections : Cardinality(RowsOf(voters, u, e)) <= 1
    /\ \A w \in Workers :
         (ReturnedCreateVoter(w)
            /\ RowsOf(req[w].preVoters, req[w].user, req[w].election) # {})
         => (req[w].result \in ValidationErrors /\ voters = req[w].preVoters)

C1_Witness ==
    \E w \in Workers :
      /\ ReturnedCreateVoter(w)
      /\ RowsOf(req[w].preVoters, req[w].user, req[w].election) # {}
      /\ req[w].result = "already_signed_up"

\* C2: a create_voter call for a pair with no Voter row, made at a time after
\* the election's start_date, raises ValidationError.
C2_LateSignupRaises ==
    \A w \in Workers :
      (ReturnedCreateVoter(w)
         /\ RowsOf(req[w].preVoters, req[w].user, req[w].election) = {}
         /\ req[w].t0 > req[w].el.start_date)
      => req[w].result \in ValidationErrors

C2_Witness ==
    \E w \in Workers :
      /\ ReturnedCreateVoter(w)
      /\ RowsOf(req[w].preVoters, req[w].user, req[w].election) = {}
      /\ req[w].t0 > req[w].el.start_date
      /\ req[w].result = "election_started"

\* C3: whenever create_voter raises ValidationError the Voter rows are the same
\* after the call as before it.
C3_FailedSignupAddsNothing ==
    \A w \in Workers :
      (ReturnedCreateVoter(w) /\ req[w].result \in ValidationErrors)
      => voters = req[w].preVoters

\* C4: a user whose every signup request for an election was made after its
\* start_date never has a ballot accepted by the vote handler in that election.
C4_LateSignupNeverVotes ==
    \A u \in Users, e \in Elections : cast[<<u, e>>] > 0 => <<u, e>> \in onTime

\* C5: a create_vote call with more chosen candidates than the election's
\* max_candidates_choice raises ValidationError, and once it has returned the
\* Vote rows are the same as before the call.
C5_TooManyRaises ==
    \A w \in Workers :
      (ReturnedCreateVote(w)
         /\ Cardinality(req[w].sel) > req[w].el.max_candidates_choice)
      => (req[w].result \in ValidationErrors /\ votes = req[w].preVotes)

C5_Witness ==
    \E w \in Workers :
      /\ ReturnedCreateVote(w)
      /\ Cardinality(req[w].sel) > req[w].el.max_candidates_choice
      /\ req[w].t0 < req[w].el.end_date
      /\ req[w].result = "too_many"

\* C6: a create_vote call made at or after the election's end_date raises
\* ValidationError, and once it has returned the Vote rows are the same as
\* before the call.
C6_AfterEndRaises ==
    \A w \in Workers :
      (ReturnedCreateVote(w) /\ req[w].t0 >= req[w].el.end_date)
      => (req[w].result \in ValidationErrors /\ votes = req[w].preVotes)

C6_Witness ==
    \E w \in Workers :
      /\ ReturnedCreateVote(w)
      /\ req[w].t0 = req[w].el.end_date
      /\ Cardinality(req[w].sel) <= req[w].el.max_candidates_choice
      /\ req[w].result = "ended"

\* C7: a create_vote call with between one and max_candidates_choice chosen
\* candidates, made strictly before end_date, succeeds: exactly one Vote row is
\* added, it is linked to the election, its chosen candidates are the chosen
\* set, and the voter's has_voted is true in memory and in its row.
C7_ValidVoteSucceeds ==
    \A w \in Workers :
      (ReturnedCreateVote(w)
         /\ Cardinality(req[w].sel) >= 1
         /\ Cardinality(req[w].sel) <= req[w].el.max_candidates_choice
         /\ req[w].t0 < req[w].el.end_date)
      => /\ req[w].result = "voted"
         /\ \E v \in votes :
              /\ v \notin req[w].preVotes
              /\ votes = req[w].preVotes \cup {v}
              /\ v.id = req[w].vote
              /\ v.election = req[w].election
              /\ v.chosen_candidates = req[w].sel
         /\ req[w].voter.has_voted
         /\ \E x \in voters : x.id = req[w].voter.id /\ x.has_voted

C7_Witness ==
    \E w \in Workers :
      /\ ReturnedCreateVote(w)
      /\ Cardinality(req[w].sel) >= 1
      /\ Cardinality(req[w].sel) <= req[w].el.max_candidates_choice
      /\ req[w].t0 < req[w].el.end_date
      /\ req[w].result = "voted"
      /\ req[w].preVotes # {}
      /\ \E x \in req[w].preVoters : x.id = req[w].voter.id /\ ~x.has_voted

\* C8: whenever create_vote raises ValidationError the voter passed to it is as
\* it was before the call, in memory and in the store: no Voter row is written.
C8_FailedVoteLeavesVoter ==
    \A w \in Workers :
      (ReturnedCreateVote(w) /\ req[w].result \in ValidationErrors)
      => (voters = req[w].preVoters /\ req[w].voter \in req[w].preVoters)

C8_Witness ==
    \E w \in Workers :
      /\ ReturnedCreateVote(w)
      /\ req[w].result \in ValidationErrors
      /\ ~req[w].voter.has_voted

\* C9: in every state in which no create_vote call is in progress, every Vote
\* row has at most max_candidates_choice chosen candidates and a timestamp
\* strictly before end_date, of its election as stored; signups, ballots and
\* staff edits of elections included.
NoCreateVoteInProgress ==
    \A w \in Workers : req[w].pc \notin {"vote_set", "vote_clean", "vote_save"}

C9_VotesWithinLimits ==
    NoCreateVoteInProgress =>
      \A v \in votes :
        /\ Cardinality(v.chosen_candidates) <= elections[v.election].max_candidates_choice
        /\ v.timestamp < elections[v.election].end_date

\* C10: under requests that do not overlap, at most one vote request of a user
\* for an election results in a persisted Vote, and a request made when the
\* user's has_voted is true is answered 'You have already voted' and leaves the
\* Vote rows as they were.
C10_OneVotePerVoter ==
    /\ \A u \in Users, e \in Elections : cast[<<u, e>>] <= 1
    /\ \A w \in Workers :
         (ReturnedVote(w)
            /\ \E x \in RowsOf(req[w].preVoters, req[w].user, req[w].election) :
                 x.has_voted)
         => (req[w].result = "already_voted" /\ votes = req[w].preVotes)

C10_Witness ==
    \E w \in Workers :
      /\ ReturnedVote(w)
      /\ req[w].result = "already_voted"
      /\ cast[<<req[w].user, req[w].election>>] = 1

\* Two requests of the same kind that have both returned, for the same user and
\* election, on different workers.
BothReturned(w1, w2, kind) ==
    /\ w1 # w2
    /\ req[w1].pc = "done" /\ req[w2].pc = "done"
    /\ req[w1].kind = kind /\ req[w2].kind = kind
    /\ req[w1].user = req[w2].user /\ req[w1].election = req[w2].election

\* The request of w found the user's Voter row with has_voted false.
ReadNotVoted(w) ==
    \E x \in RowsOf(req[w].preVoters, req[w].user, req[w].election) : ~x.has_voted

\* The ballot of w passed the handler's checks and is within the election's
\* limits: create_vote was called and stamped the vote before end_date.
ValidBallot(w) ==
    /\ req[w].sel # {}
    /\ Cardinality(req[w].sel) <= req[w].el.max_candidates_choice
    /\ req[w].timestamp < req[w].el.end_date

\* C11: when two overlapping vote requests of one voter have both read
\* has_voted = false (neither had written it when the other read) and carry
\* valid ballots, both create_vote calls succeed and two Vote rows are
\* persisted for that voter: nothing in the code stops the second.
C11_RaceDoubleVote ==
    \A w1, w2 \in Workers :
      (BothReturned(w1, w2, "vote")
         /\ ReadNotVoted(w1) /\ ReadNotVoted(w2)
         /\ ValidBallot(w1) /\ ValidBallot(w2))
      => /\ req[w1].result = "voted" /\ req[w2].result = "voted"
         /\ req[w1].vote # req[w2].vote
         /\ \A w \in {w1, w2} :
              \E v \in votes : /\ v.id = req[w].vote
                               /\ v.election = req[w].election
                               /\ v.chosen_candidates = req[w].sel
         /\ cast[<<req[w1].user, req[w1].election>>] = 2

C11_Witness ==
    \E w1, w2 \in Workers :
      /\ BothReturned(w1, w2, "vote")
      /\ ReadNotVoted(w1) /\ ReadNotVoted(w2)
      /\ req[w1].voter.id = req[w2].voter.id
      /\ req[w1].result = "voted" /\ req[w2].result = "voted"
      /\ Cardinality({v \in votes : v.election = req[w1].election}) = 2

\* C12: when two overlapping create_voter calls for the same election and user
\* have both passed the is_voter check (neither had inserted when the other
\* checked), both insert: two Voter rows of the pair are persisted.
C12_RaceDoubleVoter ==
    \A w1, w2 \in Workers :
      (BothReturned(w1, w2, "create_voter")
         /\ RowsOf(req[w1].preVoters, req[w1].user, req[w1].election) = {}
         /\ RowsOf(req[w2].preVoters, req[w2].user, req[w2].election) = {})
      => /\ Cardinality(RowsOf(voters, req[w1].user, req[w1].election)) = 2
         /\ req[w1].voter \in voters /\ req[w2].voter \in voters
         /\ req[w1].voter.id # req[w2].voter.id

C12_Witness ==
    \E w1, w2 \in Workers :
      /\ BothReturned(w1, w2, "create_voter")
      /\ RowsOf(req[w1].preVoters, req[w1].user, req[w1].election) = {}
      /\ RowsOf(req[w2].preVoters, req[w2].user, req[w2].election) = {}
      /\ req[w1].result = "signed_up" /\ req[w2].result = "signed_up"
      /\ Cardinality(RowsOf(voters, req[w1].user, req[w1].election)) = 2

\* A request for the results that has returned.
ReturnedResult(w) == req[w].pc = "done" /\ req[w].kind \in {"result", "pdf"}

\* C13: while a create_vote call is between storing its Vote and validating
\* it, the Vote row with its chosen candidates is in the store, where any
\* concurrent read (a vote count for the results) finds it, also when
\* validation is about to reject it; the step that raises the ValidationError
\* removes the row.
C13_InvalidVoteVisible ==
    [][\A w \in Workers :
         /\ req[w].pc = "vote_clean"
              => /\ \E v \in votes : /\ v.id = req[w].vote
                                     /\ v.chosen_candidates = req[w].sel
                 /\ \A c \in req[w].sel : vote_count(c) >= 1
         /\ (Unvalidated(w) /\ req'[w].pc = "done")
              => /\ req'[w].result \in ValidationErrors
                 /\ ~ \E v \in votes' : v.id = req[w].vote]_vars

\* A results request has returned a count that includes a vote which its
\* create_vote call has since rejected and deleted: no Vote row is left.
C13_Witness ==
    \E r, w \in Workers :
      /\ ReturnedResult(r) /\ req[r].result = "results"
      /\ w \in req[r].dirty
      /\ \E c \in DOMAIN req[r].tally : req[r].tally[c] >= 1
      /\ req[w].pc = "done" /\ req[w].result \in ValidationErrors
      /\ votes = {}

\* The answers of the vote handler that it gives before it calls create_vote.
HandlerRejections ==
    {"not_voter", "already_voted", "no_candidates", "no_such_candidate"}

\* C14: a vote request that the handler rejects before calling create_vote
\* leaves the Vote rows and the Voter rows as they were; a request of a user
\* with no Voter row for the election, of a voter whose has_voted is true, or
\* with no candidate id is rejected that way, and a ballot that is passed on
\* has as many existing candidates as it has ids.
C14_RejectedBallotChangesNothing ==
    \A w \in Workers :
      ReturnedVote(w) =>
        LET mine == RowsOf(req[w].preVoters, req[w].user, req[w].election) IN
        /\ req[w].result \in HandlerRejections
             => (votes = req[w].preVotes /\ voters = req[w].preVoters)
        /\ mine = {} => req[w].result = "not_voter"
        /\ (\E x \in mine : x.has_voted) => req[w].result = "already_voted"
        /\ req[w].nids = 0 => req[w].result \in HandlerRejections
        /\ req[w].result = "no_candidates" => req[w].nids = 0
        /\ req[w].result \notin HandlerRejections
             => (req[w].nids > 0 /\ Cardinality(req[w].sel) = req[w].nids)

C14_Witness ==
    \E w \in Workers :
      /\ ReturnedVote(w)
      /\ req[w].result = "no_candidates"
      /\ req[w].nids = 0
      /\ req[w].preVotes # {}
      /\ \E x \in RowsOf(req[w].preVoters, req[w].user, req[w].election) :
           ~x.has_voted

\* C15: a create_vote call with no chosen candidate, made strictly before the
\* election's end_date, passes validation: one Vote row with no chosen
\* candidate is added and the voter's has_voted is true, in memory and stored.
C15_EmptySelectionAccepted ==
    \A w \in Workers :
      (ReturnedCreateVote(w) /\ req[w].sel = {} /\ req[w].t0 < req[w].el.end_date)
      => /\ req[w].result = "voted"
         /\ \E v \in votes :
              /\ v.id = req[w].vote
              /\ v.chosen_candidates = {}
              /\ v.election = req[w].election
              /\ v \notin req[w].preVotes
              /\ votes = req[w].preVotes \cup {v}
         /\ req[w].voter.has_voted
         /\ \E x \in voters : x.id = req[w].voter.id /\ x.has_voted

C15_Witness ==
    \E w \in Workers :
      /\ ReturnedCreateVote(w)
      /\ req[w].sel = {}
      /\ req[w].t0 < req[w].el.end_date
      /\ req[w].result = "voted"
      /\ \E v \in votes : v.id = req[w].vote /\ v.chosen_candidates = {}
      /\ \E x \in req[w].preVoters : x.id = req[w].voter.id /\ ~x.has_voted

\* C17: in every step of any sequence of signup and vote requests, each Voter
\* row stays in the store with its user and election and a has_voted that is
\* not reset to false; a new row has has_voted false; and has_voted becomes
\* true only in the step in which a create_vote call for that voter succeeds.
C17_VoterLifecycle ==
    [][/\ \A v \in voters :
            \E x \in voters' : /\ x.id = v.id
                                /\ x.user = v.user /\ x.election = v.election
                                /\ v.has_voted => x.has_voted
       /\ \A x \in voters' :
            (~ \E v \in voters : v.id = x.id) => ~x.has_voted
       /\ \A v \in voters, x \in voters' :
            (x.id = v.id /\ ~v.has_voted /\ x.has_voted)
            => \E w \in Workers : /\ req[w].pc = "vote_save"
                                  /\ req[w].voter.id = v.id
                                  /\ req'[w].pc = "done"
                                  /\ req'[w].result = "voted"]_vars

C17_Witness ==
    \E w \in Workers :
      /\ ReturnedVote(w) /\ req[w].result = "voted"
      /\ \E v \in req[w].preVoters : v.id = req[w].voter.id /\ ~v.has_voted
      /\ \E x \in voters : x.id = req[w].voter.id /\ x.has_voted
      /\ \E y \in voters : ~y.has_voted

\* The Vote row of v is not being built by a create_vote call.
Returned(v) ==
    \A w \in Workers :
      req[w].pc \in {"vote_set", "vote_clean", "vote_save"} => req[w].vote # v.id

\* C18: a Vote that create_vote has returned stays in the store with its
\* election and its chosen candidates in every later step: signups, votes and
\* the staff's creations, updates and deletions of elections and candidates.
C18_VoteImmutable ==
    [][\A v \in votes :
         Returned(v) => \E x \in votes' : /\ x.id = v.id
                                            /\ x.election = v.election
                                            /\ x.chosen_candidates = v.chosen_candidates]_vars

\* The six views behind StaffMemberRequiredMixin.
StaffViews ==
    {"election_create", "election_update", "election_delete",
     "candidate_create", "candidate_update", "candidate_delete"}

\* C19: every request to a management view made by a requester who is not
\* staff leaves the Election and Candidate rows (and the rest of the store) as
\* they were; it is answered with the login page when the requester is not
\* logged in, else with the election list and an error.
C19_StaffOnly ==
    [][\A w \in Workers :
         (Free(w) /\ req'[w].pc = "done" /\ req'[w].kind \in StaffViews
            /\ req'[w].user \notin Staff)
         => /\ elections' = elections /\ candidates' = candidates
            /\ voters' = voters /\ votes' = votes
            /\ req'[w].result = IF req'[w].user = AnonymousUser
                                 THEN "login" ELSE "denied"]_vars

\* A user who is not staff was refused after the staff had changed the store.
C19_Witness ==
    \E w \in Workers :
      /\ req[w].pc = "done" /\ req[w].kind \in StaffViews
      /\ req[w].user \in Users
      /\ req[w].result = "denied"
      /\ updates > 0
      /\ votes # {}

\* What a results request answers for an election that finishes at end_date
\* when it is made at t0: the vote counts exactly when end_date <= t0, else the
\* election list with an error and no count.
ResultsWhenFinished(w) ==
    /\ req[w].t0 < req[w].el.end_date
         => (req[w].result = "not_finished" /\ req[w].tally = <<>>)
    /\ req[w].t0 >= req[w].el.end_date
         => /\ req[w].result = "results"
            /\ req[w].tally = [c \in candidate_set(req[w].election) |-> vote_count(c)]

C22_VotedVoterRefused ==
    \A w \in Workers :
      (ReturnedCreateVote(w)
         /\ \E x \in req[w].preVoters : x.id = req[w].voter.id /\ x.has_voted)
      => (req[w].result # "voted" /\ votes = req[w].preVotes)

\* C23: in every state in which no create_vote call is in progress, every
\* candidate chosen in a Vote cast through the vote handler is a candidate of
\* that Vote's election.
C23_ChosenOfElection ==
    NoCreateVoteInProgress =>
      \A v \in votes : \A c \in v.chosen_candidates :
        c \in DOMAIN candidates /\ candidates[c] = v.election

\* C24: in every state in which no create_vote call is in progress, every Vote
\* has a timestamp at or after the start_date of its election: a vote request
\* made before the election starts creates no Vote.
C24_VotesAfterStart ==
    NoCreateVoteInProgress =>
      \A v \in votes : elections[v.election].start_date <= v.timestamp

\* No request is in progress: every worker is idle or has returned its answer.
NoRequestInProgress == \A w \in Workers : req[w].pc \in {"idle", "done"}

\* C25: in every state in which no request is in progress, reached by signup
\* and vote requests that do not overlap, each election has as many Votes as
\* it has Voter rows with has_voted = TRUE.
C25_VotesMatchVoted ==
    NoRequestInProgress =>
      \A e \in Elections :
        Cardinality({v \in votes : v.election = e})
          = Cardinality({x \in voters : x.election = e /\ x.has_voted})

C25_Witness ==
    /\ NoRequestInProgress
    /\ \E w \in Workers : ReturnedVote(w) /\ req[w].result = "voted"
    /\ \E e \in Elections :
         /\ Cardinality({v \in votes : v.election = e}) = 1
         /\ \E x \in voters : x.election = e /\ ~x.has_voted
    /\ Cardinality(votes) = 2

\* C26: a signup or vote request made once the current time has reached the
\* end_date of an election E, whose dates are never edited, returns with the
\* vote_count of every candidate of E as the request found it: the results of
\* a finished election are final.
C26_FinishedResultsFinal ==
    \A w \in Workers :
      (ReturnedVote(w) \/ ReturnedCreateVoter(w)) =>
        \A c \in DOMAIN candidates :
          elections[candidates[c]].end_date <= req[w].t0
            => vote_count(c)
                 = Cardinality({v \in req[w].preVotes : c \in v.chosen_candidates})
====
